---------------------------- MODULE Spec2Model ----------------------------
(***************************************************************************)
(* The `generate` command of the CLI (src/unnamed/part_006, lines 232-529) *)
(* as a state machine: one action per awaited step of the handler.  The    *)
(* collaborators it drives (backend HTTP API, simple-git, inquirer) are    *)
(* the environment: every call they receive is appended to callLog with    *)
(* the outcome the environment chose for it.                               *)
(***************************************************************************)
EXTENDS Integers, Sequences, FiniteSets, TLC

(***************************************************************************)
(* Bounds and input universes.                                             *)
(***************************************************************************)
MaxChanges == 2

\* JS undefined / null
Undefined == "undefined"

\* Absolute paths below the project root (path.resolve leaves them alone):
\* two files the scan finds and one that does not exist yet.
Paths == {"/proj/a.ts", "/proj/b.ts", "/proj/c.ts"}

\* The changes the generation call may propose: an add of the new file with
\* and without newContent, a modify that changes nothing, a modify that
\* changes a file, a delete, and an action outside add|modify|delete.
ProposedChanges ==
    {[filePath |-> "/proj/c.ts", action |-> "add", newContent |-> "x"],
     [filePath |-> "/proj/c.ts", action |-> "add", newContent |-> Undefined],
     [filePath |-> "/proj/a.ts", action |-> "modify", newContent |-> "x"],
     [filePath |-> "/proj/b.ts", action |-> "modify", newContent |-> "x"],
     [filePath |-> "/proj/b.ts", action |-> "delete", newContent |-> Undefined],
     [filePath |-> "/proj/a.ts", action |-> "rename", newContent |-> Undefined]}

Batches == UNION {[1..n -> ProposedChanges] : n \in 0..MaxChanges}

\* What the scan returns: a.ts holds "x" and b.ts holds "y".
ScanResults ==
    {<<[filePath |-> "/proj/a.ts", content |-> "x"],
       [filePath |-> "/proj/b.ts", content |-> "y"]>>}

MainBranch == "main"
CustomBranch == "topic"
\* `feature/${prompt...}`.substring(0, 50) for the prompt of this invocation
DefaultBranchSuggestion == "feature/prompt"
\* The user accepts the suggested name.
BranchNameInputs == {DefaultBranchSuggestion}

Confirms == {"yes", "no", "all", "abort"}

VARIABLES
    pc,                   \* position of the handler (the next awaited step)
    options,              \* commander options object: yes, noGit, branch
    autoConfirm,          \* const autoConfirm = options.yes
    skipGit,              \* const skipGit = options.noGit
    customBranchName,     \* const customBranchName = options.branch
    isGitRepo,
    originalBranch,
    originalFileContents, \* Map<string,string>: path -> content | Undefined
    changes,              \* llmOutput.changes
    i,                    \* review loop: index of the change under review
    changesToApply,       \* indices (references) of the confirmed changes
    filesModifiedOrAdded,
    j,                    \* apply loop: index into changesToApply
    repo,                 \* environment: is projectRoot a Git repository
    head,                 \* environment: the branch checked out in projectRoot
    callLog,              \* every collaborator call issued, with its outcome
    prompt,               \* the <prompt> argument, as a sequence of characters
    branchName,           \* the branch name derived from the prompt
    authPc,               \* position of the login, logout or whoami command
    commands,             \* commands run so far in the session
    configFile,           \* ~/.ai-editor-config.json: exists, text
    server,               \* the callback server of startOAuthWebServer
    closeCallbacks,       \* callbacks handed to server.close, in order
    timeout,              \* the 5 minute timer is armed
    authPromise,          \* the promise startOAuthWebServer returned
    requests,             \* requests the callback server has handled
    loginArgs,            \* <provider> and --port of the login command
    lastRequest,          \* the last request handled, with its status
    authLog,              \* calls of the token store, with their results
    diffCall,             \* a call of generateUnifiedDiff: arguments, result
    repairs               \* a text and its successive repairJsonBadEscapes results

\* the variables of the generate and scan handlers
workflowVars == <<pc, options, autoConfirm, skipGit, customBranchName, isGitRepo,
                  originalBranch, originalFileContents, changes, i,
                  changesToApply, filesModifiedOrAdded, j, repo, head, callLog>>

\* the variables of the branch-name derivation
branchNameVars == <<prompt, branchName>>

\* the variables of the login, logout and whoami commands
authVars == <<authPc, commands, configFile, server, closeCallbacks, timeout,
              authPromise, requests, loginArgs, lastRequest, authLog>>

\* the variables of the diff and JSON repair utilities
utilVars == <<diffCall, repairs>>

\* the utilities have not been called
UtilIdle ==
    /\ diffCall = [original |-> "", new |-> "", returned |-> FALSE, diffString |-> <<>>]
    /\ repairs = <<>>

\* what a step of the handlers leaves alone
auxVars == <<branchNameVars, authVars, utilVars>>

vars == <<workflowVars, auxVars>>

Terminal == {"Done", "Aborted", "Failed"}

(***************************************************************************)
(* Helpers.                                                                *)
(***************************************************************************)
\* JS truthiness of a string-or-undefined value
Truthy(v) == v # Undefined /\ v # ""

\* `v || ''`
OrEmpty(v) == IF Truthy(v) THEN v ELSE ""

Call(op, arg, idx, content, files, res) ==
    [op |-> op, arg |-> arg, idx |-> idx, content |-> content,
     files |-> files, res |-> res]

Logged(c) == callLog' = Append(callLog, c)

\* path.relative(repoPath, filePath)
PathRelative(p) ==
    CASE p = "/proj/a.ts" -> "a.ts"
      [] p = "/proj/b.ts" -> "b.ts"
      [] p = "/proj/c.ts" -> "c.ts"
      [] OTHER -> p

\* filePaths.map(filePath => path.relative(repoPath, filePath))
RelativePaths(filePaths) ==
    [n \in 1..Len(filePaths) |-> PathRelative(filePaths[n])]

\* The handler starts in `generate` (pc = "getAuthToken") or in `scan`
\* (pc = "scan.getAuthToken"), which takes none of the generate options.
Init ==
    /\ pc \in {"getAuthToken", "scan.getAuthToken"}
    /\ options \in [yes : BOOLEAN, noGit : BOOLEAN, branch : {Undefined, CustomBranch}]
    /\ pc = "scan.getAuthToken" =>
           options = [yes |-> FALSE, noGit |-> FALSE, branch |-> Undefined]
    /\ autoConfirm = options.yes
    /\ skipGit = options.noGit
    /\ customBranchName = options.branch
    /\ isGitRepo = FALSE
    /\ originalBranch = Undefined
    /\ originalFileContents = [p \in Paths |-> Undefined]
    /\ changes = <<>>
    /\ i = 1
    /\ changesToApply = <<>>
    /\ filesModifiedOrAdded = <<>>
    /\ j = 1
    /\ repo \in BOOLEAN
    /\ head = IF repo THEN MainBranch ELSE Undefined
    /\ callLog = <<>>
    /\ prompt = <<>>
    /\ branchName = Undefined
    /\ authPc = "idle"
    /\ commands = 0
    /\ configFile = [exists |-> FALSE, text |-> <<>>]
    /\ server = "none"
    /\ closeCallbacks = <<>>
    /\ timeout = FALSE
    /\ authPromise = [state |-> "none", token |-> [k \in {} |-> ""], error |-> ""]
    /\ requests = 0
    /\ loginArgs = [provider |-> "", port |-> <<>>]
    /\ lastRequest = [path |-> "", status |-> 0]
    /\ authLog = <<>>
    /\ UtilIdle


(***************************************************************************)
(* Pre-flight: credential check and Git branch set-up.                     *)
(***************************************************************************)

\* A catch that tries to put the branch back instead of exiting.
CatchMutant == "revertCheckout"

\* Where a rejection inside the handler's try block ends: the catch logs the
\* error and calls process.exit(1).
Catch == "Failed"

\* A credential check that only warns and goes on without a token.
AfterAuthMutant(token, next) == next

\* if (!authToken) { console.error(...); process.exit(1); } (lines 171-174)
AfterAuth(token, next) == IF ~token THEN "Failed" ELSE next

\* getAuthenticatedBackendApi, called first by `generate` and by `scan`.
GetAuthenticatedBackendApi ==
    /\ pc \in {"getAuthToken", "scan.getAuthToken"}
    /\ \E token \in BOOLEAN :
        /\ Logged(Call("getAuthToken", "", 0, Undefined, <<>>,
                       IF token THEN "ok" ELSE "null"))
        /\ pc' = AfterAuth(token,
                           IF pc = "scan.getAuthToken" THEN "scan.scanProject"
                           ELSE IF ~skipGit THEN "isGitRepository"
                           ELSE "scanProject")
    /\ UNCHANGED <<options, autoConfirm, skipGit, customBranchName, isGitRepo,
                   originalBranch, originalFileContents, changes, i,
                   changesToApply, filesModifiedOrAdded, j, repo, head>>
    /\ UNCHANGED auxVars

\* What git.checkIsRepo(IS_REPO_ROOT) can do: it resolves to a boolean, and
\* rejects only when git itself cannot answer.
CheckIsRepoOutcomes == IF repo THEN {"true"} ELSE {"false", "throws"}

\* gitManager.isGitRepository: true unless checkIsRepo throws.
IsGitRepositoryResult(outcome) == outcome # "throws"

IsGitRepository ==
    /\ pc = "isGitRepository"
    /\ \E outcome \in CheckIsRepoOutcomes :
        /\ Logged(Call("checkIsRepo", "", 0, Undefined, <<>>, outcome))
        /\ isGitRepo' = IsGitRepositoryResult(outcome)
        /\ IF isGitRepo'
           THEN /\ pc' = "getCurrentBranch"
                /\ UNCHANGED options
           ELSE /\ pc' = "scanProject"
                /\ options' = [options EXCEPT !.noGit = TRUE]
    /\ UNCHANGED <<autoConfirm, skipGit, customBranchName, originalBranch,
                   originalFileContents, changes, i, changesToApply,
                   filesModifiedOrAdded, j, repo, head>>
    /\ UNCHANGED auxVars

\* gitManager.getCurrentBranch: branchSummary.current, or null on any error.
GetCurrentBranchResults == IF repo THEN {head, Undefined} ELSE {Undefined}

\* The --yes branch of the pre-flight (lines 332-342): the branch name to use.
AutoBranchName ==
    IF ~options.noGit /\ ~Truthy(customBranchName)
    THEN DefaultBranchSuggestion
    ELSE options.branch

GetCurrentBranch ==
    /\ pc = "getCurrentBranch"
    /\ \E b \in GetCurrentBranchResults :
        /\ Logged(Call("branchLocal", "", 0, Undefined, <<>>,
                       IF b = Undefined THEN "fail" ELSE "ok"))
        /\ originalBranch' = b
    /\ IF ~autoConfirm
       THEN /\ pc' = "promptProceedGit"
            /\ UNCHANGED options
       ELSE /\ options' = [options EXCEPT !.branch = AutoBranchName]
            /\ pc' = IF ~options.noGit /\ Truthy(options'.branch)
                     THEN "createBranch" ELSE "scanProject"
    /\ UNCHANGED <<autoConfirm, skipGit, customBranchName, isGitRepo,
                   originalFileContents, changes, i, changesToApply,
                   filesModifiedOrAdded, j, repo, head>>
    /\ UNCHANGED auxVars

PromptProceedGit ==
    /\ pc = "promptProceedGit"
    /\ \E proceedGit \in BOOLEAN :
        /\ Logged(Call("promptProceedGit", "", 0, Undefined, <<>>,
                       IF proceedGit THEN "yes" ELSE "no"))
        /\ IF ~proceedGit
           THEN /\ options' = [options EXCEPT !.noGit = TRUE]
                /\ pc' = "scanProject"
           ELSE /\ UNCHANGED options
                /\ pc' = IF ~Truthy(customBranchName)
                         THEN "promptBranchName" ELSE "createBranch"
    /\ UNCHANGED <<autoConfirm, skipGit, customBranchName, isGitRepo,
                   originalBranch, originalFileContents, changes, i,
                   changesToApply, filesModifiedOrAdded, j, repo, head>>
    /\ UNCHANGED auxVars

PromptBranchName ==
    /\ pc = "promptBranchName"
    /\ \E branchNameInput \in BranchNameInputs :
        /\ Logged(Call("promptBranchName", "", 0, Undefined, <<>>, branchNameInput))
        /\ options' = [options EXCEPT !.branch = branchNameInput]
    /\ pc' = "createBranch"
    /\ UNCHANGED <<autoConfirm, skipGit, customBranchName, isGitRepo,
                   originalBranch, originalFileContents, changes, i,
                   changesToApply, filesModifiedOrAdded, j, repo, head>>
    /\ UNCHANGED auxVars

\* What `git branch <name>` can answer; outside a repository it only fails.
GitBranchOutcomes == IF repo THEN {"ok", "exists", "fail"} ELSE {"fail"}

\* What any other git command (checkout, add) can answer.
GitOutcomes == IF repo THEN {"ok", "fail"} ELSE {"fail"}

\* gitManager.createBranch: branch + checkout; on "already exists" check the
\* branch out instead; every other error is rethrown.
\* A createBranch that rethrows every error of git branch.
ChecksOutAfterMutant(b) == b = "ok"

\* createBranch goes on to git.checkout(branchName) when git.branch resolved,
\* and in its catch when the message says the branch already exists.
ChecksOutAfter(b) == b \in {"ok", "exists"}

CreateBranch ==
    /\ pc = "createBranch"
    /\ \E b \in GitBranchOutcomes :
        LET branchCall == Call("branch", options.branch, 0, Undefined, <<>>, b)
        IN  IF ~ChecksOutAfter(b)
            THEN /\ Logged(branchCall)
                 /\ pc' = Catch
                 /\ UNCHANGED head
            ELSE \E c \in GitOutcomes :
                 /\ callLog' = callLog \o
                        <<branchCall,
                          Call("checkout", options.branch, 0, Undefined, <<>>, c)>>
                 /\ IF c = "ok"
                    THEN pc' = "scanProject" /\ head' = options.branch
                    ELSE pc' = Catch /\ UNCHANGED head
    /\ UNCHANGED <<options, autoConfirm, skipGit, customBranchName, isGitRepo,
                   originalBranch, originalFileContents, changes, i,
                   changesToApply, filesModifiedOrAdded, j, repo>>
    /\ UNCHANGED auxVars

(***************************************************************************)
(* The `scan` command (lines 178-230): one scan call, then the listing.    *)
(***************************************************************************)
ScanCommand ==
    /\ pc = "scan.scanProject"
    /\ \E r \in {"ok", "fail"} :
        /\ Logged(Call("scanProject", "targetPaths", 0, Undefined, <<>>, r))
        /\ pc' = IF r = "ok" THEN "Done" ELSE Catch
    /\ UNCHANGED <<options, autoConfirm, skipGit, customBranchName, isGitRepo,
                   originalBranch, originalFileContents, changes, i,
                   changesToApply, filesModifiedOrAdded, j, repo, head>>
    /\ UNCHANGED auxVars

(***************************************************************************)
(* Scan and remote generation.                                             *)
(***************************************************************************)

\* scannedFiles.forEach(file => originalFileContents.set(file.filePath, file.content))
RECURSIVE SetAll(_, _)
\* A scan whose result is never recorded.
SetAllMutant(map, files) == map

SetAll(map, files) ==
    IF files = <<>> THEN map
    ELSE SetAll([map EXCEPT ![Head(files).filePath] = Head(files).content],
                Tail(files))

ScanProject ==
    /\ pc = "scanProject"
    /\ \/ /\ Logged(Call("scanProject", "allScanPaths", 0, Undefined, <<>>, "fail"))
          /\ pc' = Catch
          /\ UNCHANGED originalFileContents
       \/ \E scannedFiles \in ScanResults :
          /\ Logged(Call("scanProject", "allScanPaths", 0, Undefined, <<>>, "ok"))
          /\ originalFileContents' = SetAll(originalFileContents, scannedFiles)
          /\ pc' = "callLLM"
    /\ UNCHANGED <<options, autoConfirm, skipGit, customBranchName, isGitRepo,
                   originalBranch, changes, i, changesToApply,
                   filesModifiedOrAdded, j, repo, head>>
    /\ UNCHANGED auxVars

\* An empty answer handled like "no changes were confirmed".
AfterGenerateMutant(llmOutput) ==
    IF Len(llmOutput) = 0
    THEN (IF isGitRepo /\ ~options.noGit /\ Truthy(options.branch)
             /\ Truthy(originalBranch)
          THEN "revertCheckout" ELSE "Done")
    ELSE "review"

\* if (llmOutput.changes.length === 0) { ...; return; } (lines 386-389)
AfterGenerate(llmOutput) == IF Len(llmOutput) = 0 THEN "Done" ELSE "review"

CallLLM ==
    /\ pc = "callLLM"
    /\ \/ /\ Logged(Call("callLLM", "", 0, Undefined, <<>>, "fail"))
          /\ pc' = Catch
          /\ UNCHANGED changes
       \/ \E llmOutput \in Batches :
          /\ Logged(Call("callLLM", "", 0, Undefined, <<>>, "ok"))
          /\ changes' = llmOutput
          /\ pc' = AfterGenerate(llmOutput)
    /\ UNCHANGED <<options, autoConfirm, skipGit, customBranchName, isGitRepo,
                   originalBranch, originalFileContents, i, changesToApply,
                   filesModifiedOrAdded, j, repo, head>>
    /\ UNCHANGED auxVars

(***************************************************************************)
(* Review loop.                                                            *)
(***************************************************************************)

\* Diff.diffLines on contents of at most one line: one common part when the
\* two are equal, otherwise the removed line (if any) then the added one.
DiffLines(oldStr, newStr) ==
    IF oldStr = newStr
    THEN <<[value |-> newStr, added |-> FALSE, removed |-> FALSE]>>
    ELSE (IF oldStr = "" THEN <<>>
          ELSE <<[value |-> oldStr, added |-> FALSE, removed |-> TRUE]>>)
         \o
         (IF newStr = "" THEN <<>>
          ELSE <<[value |-> newStr, added |-> TRUE, removed |-> FALSE]>>)

\* A rendering that marks removed lines like unchanged ones.
DiffPrefixMutant(part) == IF part.added THEN "+ " ELSE "  "

DiffPrefix(part) ==
    IF part.added THEN "+ " ELSE IF part.removed THEN "- " ELSE "  "

RenderPart(part) == [prefix |-> DiffPrefix(part), line |-> part.value]

\* A rendering that never comes out empty.
generateUnifiedDiffMutant(originalContent, newContent) ==
    [n \in 1..Len(DiffLines(originalContent, newContent))
        |-> RenderPart(DiffLines(originalContent, newContent)[n])]

\* diffGenerator.generateUnifiedDiff; the rendered string is the sequence of
\* its prefixed segments, so the empty string is the empty sequence.
generateUnifiedDiff(originalContent, newContent) ==
    LET diff == DiffLines(originalContent, newContent)
    IN  IF Len(diff) = 1 /\ ~diff[1].added /\ ~diff[1].removed
        THEN <<>>
        ELSE [n \in 1..Len(diff) |-> RenderPart(diff[n])]

\* A review loop that never takes the `continue` of the modify branch.
IsNoOpMutant(change) == FALSE

\* The modify branch of the review loop (lines 413-425): `continue` when the
\* diff against the scanned content is empty.
IsNoOp(change) ==
    /\ change.action = "modify"
    /\ generateUnifiedDiff(OrEmpty(originalFileContents[change.filePath]),
                           OrEmpty(change.newContent)) = <<>>

\* A revert guard that forgets !options.noGit and options.branch.
ShouldRevertMutant(opts) == isGitRepo /\ Truthy(originalBranch)

\* isGitRepo && !options.noGit && options.branch && originalBranch
ShouldRevert(opts) ==
    isGitRepo /\ ~opts.noGit /\ Truthy(opts.branch) /\ Truthy(originalBranch)

\* A loop that goes back to its head whatever the index.
AfterIterationLoopsMutant(nextI, toApply, opts) == "review"

\* A loop that leaves the working branch checked out when nothing was confirmed.
AfterIterationNoRevertMutant(nextI, toApply, opts) ==
    IF nextI <= Len(changes) THEN "review"
    ELSE IF Len(toApply) = 0 THEN "Done"
    ELSE "apply"

\* The code after an iteration of the review loop, up to the next await:
\* the next iteration, or past the loop (lines 469-478).
\* A loop that starts applying as soon as something is enqueued.
AfterIterationMutant(nextI, toApply, opts) ==
    IF Len(toApply) > 0 THEN "apply"
    ELSE IF nextI <= Len(changes) THEN "review"
    ELSE IF ShouldRevert(opts) THEN "revertCheckout" ELSE "Done"

AfterIteration(nextI, toApply, opts) ==
    IF nextI <= Len(changes) THEN "review"
    ELSE IF Len(toApply) = 0
         THEN (IF ShouldRevert(opts) THEN "revertCheckout" ELSE "Done")
    ELSE "apply"

\* A queue that puts the newest confirmed change first.
EnqueueMutant(toApply, idx) == <<idx>> \o toApply

\* changesToApply.push(change)
Enqueue(toApply, idx) == Append(toApply, idx)

\* One iteration of `for (const change of llmOutput.changes)` up to its await.
\* A review loop that asks for every change, whatever the flag.
AutoConfirmedMutant == FALSE

\* if (autoConfirm) { ...push... } else { ...prompt... } (line 430)
AutoConfirmed == autoConfirm

ReviewChange ==
    /\ pc = "review"
    /\ i <= Len(changes)
    /\ LET change == changes[i]
       IN  IF IsNoOp(change)
           THEN /\ i' = i + 1
                /\ pc' = AfterIteration(i + 1, changesToApply, options)
                /\ UNCHANGED <<changesToApply, filesModifiedOrAdded>>
           ELSE IF AutoConfirmed
           THEN /\ changesToApply' = Enqueue(changesToApply, i)
                /\ filesModifiedOrAdded' = Append(filesModifiedOrAdded, change.filePath)
                /\ i' = i + 1
                /\ pc' = AfterIteration(i + 1, changesToApply', options)
           ELSE /\ pc' = "promptConfirm"
                /\ UNCHANGED <<i, changesToApply, filesModifiedOrAdded>>
    /\ UNCHANGED <<options, autoConfirm, skipGit, customBranchName, isGitRepo,
                   originalBranch, originalFileContents, changes, j, repo,
                   head, callLog>>
    /\ UNCHANGED auxVars

\* An answer handling that also pushes the change on "no".
ConfirmedMutant(confirm) == confirm \in {"yes", "all", "no"}

\* The answers after which the change is pushed onto changesToApply.
Confirmed(confirm) == confirm \in {"yes", "all"}

\* An abort answer that falls through to the skip branch.
IsAbortMutant(confirm) == FALSE

\* The answer that stops the review (line 456).
IsAbort(confirm) == confirm = "abort"

\* The per-change inquirer prompt and the handling of its answer.
PromptConfirm ==
    /\ pc = "promptConfirm"
    /\ \E confirm \in Confirms :
        /\ Logged(Call("promptConfirm", changes[i].filePath, i, Undefined, <<>>, confirm))
        /\ IF Confirmed(confirm)
           THEN /\ changesToApply' = Enqueue(changesToApply, i)
                /\ filesModifiedOrAdded' =
                       Append(filesModifiedOrAdded, changes[i].filePath)
           ELSE UNCHANGED <<changesToApply, filesModifiedOrAdded>>
        /\ options' = IF confirm = "all" THEN [options EXCEPT !.yes = TRUE]
                      ELSE options
        /\ IF IsAbort(confirm)
           THEN /\ pc' = IF ShouldRevert(options) THEN "abortCheckout" ELSE "Aborted"
                /\ UNCHANGED i
           ELSE /\ i' = i + 1
                /\ pc' = AfterIteration(i + 1, changesToApply', options')
    /\ UNCHANGED <<autoConfirm, skipGit, customBranchName, isGitRepo,
                   originalBranch, originalFileContents, changes, j, repo, head>>
    /\ UNCHANGED auxVars

\* await getGit(projectRoot).checkout(originalBranch) of the abort branch; a
\* rejection reaches the handler's catch (process.exit(1)).
AbortCheckout ==
    /\ pc = "abortCheckout"
    /\ \E c \in GitOutcomes :
        /\ Logged(Call("checkout", originalBranch, 0, Undefined, <<>>, c))
        /\ IF c = "ok"
           THEN pc' = "Aborted" /\ head' = originalBranch
           ELSE pc' = Catch /\ UNCHANGED head
    /\ UNCHANGED <<options, autoConfirm, skipGit, customBranchName, isGitRepo,
                   originalBranch, originalFileContents, changes, i,
                   changesToApply, filesModifiedOrAdded, j, repo>>
    /\ UNCHANGED auxVars

\* The same checkout when no change was confirmed (lines 469-476).
RevertCheckout ==
    /\ pc = "revertCheckout"
    /\ \E c \in GitOutcomes :
        /\ Logged(Call("checkout", originalBranch, 0, Undefined, <<>>, c))
        /\ IF c = "ok"
           THEN pc' = "Done" /\ head' = originalBranch
           ELSE pc' = Catch /\ UNCHANGED head
    /\ UNCHANGED <<options, autoConfirm, skipGit, customBranchName, isGitRepo,
                   originalBranch, originalFileContents, changes, i,
                   changesToApply, filesModifiedOrAdded, j, repo>>
    /\ UNCHANGED auxVars

(***************************************************************************)
(* Apply loop and post-flight staging.                                     *)
(***************************************************************************)

\* The switch of fileApplier.applyFileChange: the backend method called for
\* the change, "none" for the default branch (warning only).
\* A dispatch that creates the file where it should write it.
BackendOpMutant(change) ==
    CASE change.action \in {"add", "modify"} -> "createFile"
      [] change.action = "delete" -> "deleteFile"
      [] OTHER -> "none"

BackendOp(change) ==
    CASE change.action = "add" -> "createFile"
      [] change.action = "modify" -> "writeFile"
      [] change.action = "delete" -> "deleteFile"
      [] OTHER -> "none"

\* An add that creates the file and leaves its content out.
BackendContentMutant(change) ==
    IF change.action = "modify" THEN OrEmpty(change.newContent)
    ELSE IF change.action = "add" THEN ""
    ELSE Undefined

\* The content argument of that call.
BackendContent(change) ==
    IF change.action \in {"add", "modify"} THEN OrEmpty(change.newContent)
    ELSE Undefined

BackendOutcomes == {"ok", "fail"}

\* if (isGitRepo && !options.noGit) after the apply loop (line 492)
ShouldStage == isGitRepo /\ ~options.noGit

\* An applyFileChange whose default branch throws.
ApplyOutcomesMutant(change) == BackendOutcomes

\* What applyFileChange can do for the change: nothing can fail when it
\* calls nothing.
ApplyOutcomes(change) ==
    IF BackendOp(change) = "none" THEN {"ok"} ELSE BackendOutcomes

\* The backend call applyFileChange issues for the change, with its outcome.
ApplyCalls(change, idx, r) ==
    IF BackendOp(change) = "none" THEN <<>>
    ELSE <<Call(BackendOp(change), change.filePath, idx,
                BackendContent(change), <<>>, r)>>

\* The catch of the apply loop: console.error with the path and the message.
ApplyErrorReport(change, idx, r) ==
    IF r = "fail"
    THEN <<Call("console.error", change.filePath, idx, Undefined, <<>>,
                "Failed to apply change")>>
    ELSE <<>>

\* console.log('--- Changes Applied Successfully! ---') after the loop
SuccessBanner ==
    Call("console.log", "", 0, Undefined, <<>>, "Changes Applied Successfully!")

\* An apply loop that sends a failed change back to the review.
AfterApplyReviewsAgainMutant(r, next) == IF r = "fail" THEN "review" ELSE next

\* An apply loop without its try/catch: the rejection reaches the handler's.
AfterApplyMutant(r, next) == IF r = "fail" THEN Catch ELSE next

\* try { await applyFileChange(...) } catch (fileError) { console.error(...) }:
\* the loop goes on whatever the outcome.
AfterApply(r, next) == next

\* One iteration of `for (const change of changesToApply)`, and the code
\* after the loop up to the next await when it is the last one.
ApplyFileChange ==
    /\ pc = "apply"
    /\ j <= Len(changesToApply)
    /\ LET idx == changesToApply[j]
           change == changes[idx]
           last == j + 1 > Len(changesToApply)
           next == IF ~last THEN "apply"
                   ELSE IF ShouldStage THEN "stageFiles"
                   ELSE "Done"
       IN  \E r \in ApplyOutcomes(change) :
            /\ pc' = AfterApply(r, next)
            /\ callLog' = callLog \o ApplyCalls(change, idx, r)
                                  \o ApplyErrorReport(change, idx, r)
                                  \o (IF last /\ pc' = next
                                      THEN <<SuccessBanner>> ELSE <<>>)
    /\ j' = j + 1
    /\ UNCHANGED <<options, autoConfirm, skipGit, customBranchName, isGitRepo,
                   originalBranch, originalFileContents, changes, i,
                   changesToApply, filesModifiedOrAdded, repo, head>>
    /\ UNCHANGED auxVars

\* gitManager.stageFiles(projectRoot, filesModifiedOrAdded): git add of the
\* relative paths; an error is logged and rethrown to the handler's catch.
StageFiles ==
    /\ pc = "stageFiles"
    /\ \E r \in GitOutcomes :
        /\ Logged(Call("add", "", 0, Undefined,
                       RelativePaths(filesModifiedOrAdded), r))
        /\ pc' = IF r = "ok" THEN "Done" ELSE Catch
    /\ UNCHANGED <<options, autoConfirm, skipGit, customBranchName, isGitRepo,
                   originalBranch, originalFileContents, changes, i,
                   changesToApply, filesModifiedOrAdded, j, repo, head>>
    /\ UNCHANGED auxVars

Next ==
    \/ GetAuthenticatedBackendApi
    \/ ScanCommand
    \/ IsGitRepository
    \/ GetCurrentBranch
    \/ PromptProceedGit
    \/ PromptBranchName
    \/ CreateBranch
    \/ ScanProject
    \/ CallLLM
    \/ ReviewChange
    \/ PromptConfirm
    \/ AbortCheckout
    \/ RevertCheckout
    \/ ApplyFileChange
    \/ StageFiles

Spec == Init /\ [][Next]_vars

(***************************************************************************)
(* Vocabulary of the properties.                                           *)
(***************************************************************************)
LogIdx == 1..Len(callLog)

ChangeIdx == 1..Len(changes)

Range(s) == {s[n] : n \in 1..Len(s)}

MutationOps == {"createFile", "writeFile", "deleteFile"}

\* the calls of the log that mutate files through the backend
MutationCalls == {n \in LogIdx : callLog[n].op \in MutationOps}

\* the git add calls of the log
StageCalls == {n \in LogIdx : callLog[n].op = "add"}

\* the per-change decision prompts of the log
ConfirmPrompts == {n \in LogIdx : callLog[n].op = "promptConfirm"}

Prompted(k) ==
    \E n \in LogIdx : callLog[n].op = "promptConfirm" /\ callLog[n].idx = k

Answered(k, confirm) ==
    \E n \in LogIdx :
        /\ callLog[n].op = "promptConfirm"
        /\ callLog[n].idx = k
        /\ callLog[n].res = confirm

AppliedTo(k) ==
    \E n \in LogIdx : callLog[n].op \in MutationOps /\ callLog[n].idx = k

\* change k has been announced on the console (the head of its iteration ran)
Presented(k) == k \in ChangeIdx /\ (k < i \/ (k = i /\ pc # "review"))

\* the paths of the enqueued changes, as git add receives them
EnqueuedRelativePaths ==
    [n \in 1..Len(changesToApply) |-> PathRelative(changes[changesToApply[n]].filePath)]

\* the working branch was created and checked out during the pre-flight
WorkingBranchCreated ==
    \E n \in LogIdx :
        /\ callLog[n].op = "checkout"
        /\ callLog[n].res = "ok"
        /\ callLog[n].arg = options.branch
        /\ \E m \in 1..(n - 1) : callLog[m].op = "branch"

\* a change the ChangeSet model rejects: unknown action, or add/modify
\* without newContent
Malformed(change) ==
    \/ change.action \notin {"add", "modify", "delete"}
    \/ (change.action \in {"add", "modify"} /\ change.newContent = Undefined)

\* every change of the batch is one the ChangeSet model accepts
WellFormedBatch == \A k \in ChangeIdx : ~Malformed(changes[k])

\* the branch that was checked out when the command was started
InitialHead == IF repo THEN MainBranch ELSE Undefined

(***************************************************************************)
(* C1: once the user answers "Apply All" for a change, no later change of  *)
(* the batch is prompted for and every later change that is not a no-op   *)
(* is enqueued as soon as it has been reviewed (stated for batches of      *)
(* well-formed changes).                                                   *)
(***************************************************************************)
C1_ApplyAllStopsPrompting ==
    \A k \in ChangeIdx :
        (WellFormedBatch /\ Answered(k, "all")) =>
            \A m \in ChangeIdx :
                m > k =>
                    /\ ~Prompted(m)
                    /\ (m < i /\ ~IsNoOp(changes[m])) => m \in Range(changesToApply)

(***************************************************************************)
(* C2: when the answer for the change at position k is abort, the run      *)
(* issues no file-mutation call and no staging call, also when earlier     *)
(* positions were answered yes, and no change after k is presented or      *)
(* prompted for.                                                           *)
(***************************************************************************)
C2_AbortAppliesNothing ==
    \A k \in ChangeIdx :
        Answered(k, "abort") =>
            /\ MutationCalls = {}
            /\ StageCalls = {}
            /\ \A m \in ChangeIdx : m > k => ~Presented(m) /\ ~Prompted(m)

C2_Witness ==
    /\ pc = "Aborted"
    /\ Len(changes) = 2
    /\ Answered(1, "yes")
    /\ Answered(2, "abort")
    /\ changesToApply = <<1>>

ScanFailed == \E n \in LogIdx : callLog[n].op = "scanProject" /\ callLog[n].res = "fail"

GenerateFailed == \E n \in LogIdx : callLog[n].op = "callLLM" /\ callLog[n].res = "fail"

\* the git commands that create or switch a branch
BranchCalls == {n \in LogIdx : callLog[n].op \in {"branch", "checkout"}}

(***************************************************************************)
(* C5 as stated: when the scan call fails the run ends in Failed and no    *)
(* branch has been created or checked out, before the failure or after it. *)
(***************************************************************************)
C5_ScanFailsBeforeAnyBranch ==
    ScanFailed => pc = "Failed" /\ BranchCalls = {}

(***************************************************************************)
(* C5 amended: when the scan call fails the run ends in Failed and the     *)
(* failed scan is the last call of the run, so no branch is created or     *)
(* checked out at the failure or after it; the working branch, if any, was *)
(* created by the pre-flight, before the scan was issued.                  *)
(***************************************************************************)
C5_ScanFailureIsLastCall ==
    \A n \in LogIdx :
        (callLog[n].op = "scanProject" /\ callLog[n].res = "fail")
        => /\ pc = "Failed"
           /\ n = Len(callLog)
           /\ \A m \in BranchCalls : m < n

C5_Witness ==
    /\ ScanFailed
    /\ pc = "Failed"
    /\ WorkingBranchCreated
    /\ head = DefaultBranchSuggestion

(***************************************************************************)
(* C6: when the scan call or the generation call fails, no file-mutation   *)
(* or staging call is issued and the branch checked out at the end is the  *)
(* one that was checked out when the command was started.                  *)
(***************************************************************************)
C6_RemoteFailureLeavesNoEffect ==
    (ScanFailed \/ GenerateFailed)
    => /\ MutationCalls = {}
       /\ StageCalls = {}
       /\ head = InitialHead

\* the position in the log of the abort answer, 0 when there is none
AbortAt ==
    IF \E n \in ConfirmPrompts : callLog[n].res = "abort"
    THEN CHOOSE n \in ConfirmPrompts : callLog[n].res = "abort"
    ELSE 0

\* the checkouts issued after the abort answer
RevertsAfterAbort == {n \in LogIdx : n > AbortAt /\ callLog[n].op = "checkout"}

C8_AbortNeverFails ==
    (AbortAt > 0 /\ pc \in Terminal) => pc = "Aborted"

(***************************************************************************)
(* C9: a malformed change (unknown action, or add/modify without           *)
(* newContent) is rejected: it is never prompted for, never enqueued,      *)
(* never sent to the backend (with empty content or otherwise) and its     *)
(* path is never handed to git add.                                        *)
(***************************************************************************)
C9_MalformedChangeRejected ==
    \A k \in ChangeIdx :
        Malformed(changes[k])
        => /\ ~Prompted(k)
           /\ k \notin Range(changesToApply)
           /\ ~AppliedTo(k)

\* the paths of the mutation calls that succeeded, in call order, as git add
\* would receive them
RECURSIVE SucceededPaths(_)
SucceededPaths(log) ==
    IF log = <<>> THEN <<>>
    ELSE (IF Head(log).op \in MutationOps /\ Head(log).res = "ok"
          THEN <<PathRelative(Head(log).arg)>> ELSE <<>>)
         \o SucceededPaths(Tail(log))

(***************************************************************************)
(* C10: the list handed to git add holds exactly the paths of the changes  *)
(* whose backend call succeeded, in apply order; the path of a change      *)
(* whose backend call failed is not in it (stated for batches of           *)
(* well-formed changes).                                                   *)
(***************************************************************************)
C10_StagedAreSucceeded ==
    WellFormedBatch =>
        \A n \in StageCalls : callLog[n].files = SucceededPaths(callLog)

(***************************************************************************)
(* Vocabulary of the apply pass and of the final report.                   *)
(***************************************************************************)
\* the mutation calls issued for change k
CallsFor(k) == {m \in MutationCalls : callLog[m].idx = k}

FailedApplies == {m \in MutationCalls : callLog[m].res = "fail"}

SucceededApplies == {m \in MutationCalls : callLog[m].res = "ok"}

\* the success banner has been printed
SuccessReported == \E n \in LogIdx : callLog[n] = SuccessBanner

\* the user, the flag or the project root switched version control off
VersionControlOff ==
    \/ skipGit
    \/ \E n \in LogIdx :
           callLog[n].op = "promptProceedGit" /\ callLog[n].res = "no"
    \/ ~repo

GitWriteCalls == {n \in LogIdx : callLog[n].op \in {"branch", "checkout", "add"}}

\* the remote generate step answered, with no change at all
EmptyAnswer ==
    /\ changes = <<>>
    /\ \E n \in LogIdx : callLog[n].op = "callLLM" /\ callLog[n].res = "ok"

NoToken ==
    \E n \in LogIdx : callLog[n].op = "getAuthToken" /\ callLog[n].res = "null"

(***************************************************************************)
(* C11: git add is called at most once, and only when version control is   *)
(* active and at least one backend mutation call has succeeded; when every *)
(* apply call failed, git add is not called (well-formed batches).         *)
(***************************************************************************)
C11_StageOnlyAfterSuccess ==
    WellFormedBatch =>
        /\ Cardinality(StageCalls) <= 1
        /\ \A n \in StageCalls :
              /\ isGitRepo /\ ~options.noGit
              /\ \E m \in SucceededApplies : m < n

(***************************************************************************)
(* C12: a failing git add is recovered locally: the run that saw it ends   *)
(* in Done, not in Failed, and no backend call follows it.                 *)
(***************************************************************************)
C12_StageFailureRecovered ==
    \A n \in StageCalls :
        (callLog[n].res = "fail" /\ pc \in Terminal)
        => /\ pc = "Done"
           /\ \A m \in MutationCalls : m < n

(***************************************************************************)
(* C13: a failed apply never aborts the batch: every enqueued change the   *)
(* apply loop has passed got exactly one backend call (none when its       *)
(* action maps to no call) and the ones not yet passed got none; a run     *)
(* that saw an apply fail leaves the loop only after the last enqueued     *)
(* change; and a run with apply calls is Failed only through a failed git  *)
(* add.                                                                    *)
(***************************************************************************)
C13_FailedApplyNeverAbortsBatch ==
    /\ \A n \in 1..Len(changesToApply) :
          Cardinality(CallsFor(changesToApply[n]))
            = IF n < j /\ BackendOp(changes[changesToApply[n]]) # "none"
              THEN 1 ELSE 0
    /\ (FailedApplies # {} /\ pc # "apply") => j > Len(changesToApply)
    /\ (MutationCalls # {} /\ pc = "Failed")
          => \E n \in StageCalls : callLog[n].res = "fail"

C13_Witness ==
    /\ pc = "Done"
    /\ Len(changesToApply) = 2
    /\ \E m \in FailedApplies : \E n \in SucceededApplies : m < n

(***************************************************************************)
(* C14: at Done, success is never reported when an apply call failed.      *)
(***************************************************************************)
C14_SuccessNeverReportedForFailure ==
    (pc = "Done" /\ SuccessReported) => FailedApplies = {}

(***************************************************************************)
(* C15: review and apply are two passes: a backend mutation call is issued *)
(* only after the review loop has passed the last change, and every        *)
(* decision prompt precedes every mutation call.                           *)
(***************************************************************************)
C15_ReviewBeforeApply ==
    \A m \in MutationCalls :
        /\ i > Len(changes)
        /\ \A n \in ConfirmPrompts : n < m

C15_Witness ==
    /\ pc = "Done"
    /\ Cardinality(ConfirmPrompts) = 2
    /\ Cardinality(MutationCalls) = 2

(***************************************************************************)
(* C16: the mutation calls are issued in the order in which the changes    *)
(* were received: a later call is for a later change of the batch.         *)
(***************************************************************************)
C16_ApplyInReceivedOrder ==
    \A m \in MutationCalls : \A n \in MutationCalls :
        m < n => callLog[m].idx < callLog[n].idx

C16_Witness ==
    /\ pc = "stageFiles"
    /\ \E m \in MutationCalls : \E n \in MutationCalls :
          m < n /\ callLog[m].idx = 1 /\ callLog[n].idx = 2

(***************************************************************************)
(* C17: applyFileChange dispatches by action: add -> createFile(path,      *)
(* content), modify -> writeFile(path, content), delete ->                 *)
(* deleteFile(path); one call per change, never a second one after a       *)
(* failure, and a failure reaches the caller, whose catch reports it next. *)
(***************************************************************************)
C17_ApplyDispatch ==
    \A n \in MutationCalls :
        LET change == changes[callLog[n].idx]
        IN  /\ change.action \in {"add", "modify", "delete"}
            /\ callLog[n].op = (CASE change.action = "add" -> "createFile"
                                  [] change.action = "modify" -> "writeFile"
                                  [] change.action = "delete" -> "deleteFile")
            /\ callLog[n].arg = change.filePath
            /\ (change.action # "delete" /\ Truthy(change.newContent))
                  => callLog[n].content = change.newContent
            /\ change.action = "delete" => callLog[n].content = Undefined
            /\ CallsFor(callLog[n].idx) = {n}
            /\ callLog[n].res = "fail"
                  => /\ n + 1 \in LogIdx
                     /\ callLog[n + 1].op = "console.error"
                     /\ callLog[n + 1].idx = callLog[n].idx
                     /\ callLog[n + 1].arg = change.filePath

C17_Witness ==
    /\ pc = "Done"
    /\ \E m \in SucceededApplies : callLog[m].op = "createFile"
    /\ \E m \in FailedApplies : callLog[m].op = "writeFile"

(***************************************************************************)
(* C18: when the remote generate step answers with no change, the run is   *)
(* Done and the generate call is its last call: no prompt, no mutation, no *)
(* git add and no checkout follows it.                                     *)
(***************************************************************************)
C18_EmptyAnswerEndsRun ==
    EmptyAnswer
    => /\ pc = "Done"
       /\ callLog[Len(callLog)].op = "callLLM"

C18_Witness ==
    /\ EmptyAnswer
    /\ pc = "Done"
    /\ WorkingBranchCreated
    /\ head = CustomBranch

(***************************************************************************)
(* C19: without a stored token, generate and scan end in Failed and the    *)
(* credential lookup is the only call they make: no git, scan, generate or *)
(* mutation call.                                                          *)
(***************************************************************************)
C19_NoTokenNoCalls ==
    NoToken => (pc = "Failed" /\ Len(callLog) = 1)

C19_Witness ==
    /\ NoToken
    /\ pc = "Failed"
    /\ Len(callLog) = 1
    /\ Truthy(options.branch)

(***************************************************************************)
(* C20: when version control is skipped by the flag, declined at the       *)
(* pre-flight prompt, or the project root is not a repository, no git      *)
(* branch, git checkout or git add is called on any path, also when an     *)
(* explicit branch is configured.                                          *)
(***************************************************************************)
C20_NoGitWhenSkipped ==
    VersionControlOff => GitWriteCalls = {}

(***************************************************************************)
(* Vocabulary of the prompts, the scan and the phases.                     *)
(***************************************************************************)
PromptOps == {"promptProceedGit", "promptBranchName", "promptConfirm"}

UserPrompts == {n \in LogIdx : callLog[n].op \in PromptOps}

ScanCalls == {n \in LogIdx : callLog[n].op = "scanProject"}

GenerateCalls == {n \in LogIdx : callLog[n].op = "callLLM"}

\* the content the scan reported for the path, Undefined when it reported none
ScannedContent(scannedFiles, p) ==
    IF \E n \in 1..Len(scannedFiles) : scannedFiles[n].filePath = p
    THEN (CHOOSE f \in Range(scannedFiles) : f.filePath = p).content
    ELSE Undefined

\* the phase of the workflow a position of the handler belongs to
Phase(at) ==
    CASE at \in {"getAuthToken", "scan.getAuthToken"} -> "Init"
      [] at \in {"isGitRepository", "getCurrentBranch", "promptProceedGit",
                 "promptBranchName", "createBranch"} -> "PreflightBranch"
      [] at \in {"scanProject", "scan.scanProject"} -> "Scanning"
      [] at = "callLLM" -> "RemoteGenerate"
      [] at \in {"review", "promptConfirm", "abortCheckout", "revertCheckout"}
            -> "Reviewing"
      [] at = "apply" -> "Applying"
      [] at = "stageFiles" -> "PostflightStage"
      [] OTHER -> at

PhaseRank(phase) ==
    CASE phase = "Init" -> 0
      [] phase = "PreflightBranch" -> 1
      [] phase = "Scanning" -> 2
      [] phase = "RemoteGenerate" -> 3
      [] phase = "Reviewing" -> 4
      [] phase = "Applying" -> 5
      [] phase = "PostflightStage" -> 6
      [] OTHER -> 7

(***************************************************************************)
(* C21: with --yes, no prompt of any kind (Git confirmation, branch name,  *)
(* per-change decision) is issued, and every change the review loop has    *)
(* passed that is not a no-op is enqueued for applying.                    *)
(***************************************************************************)
C21_AutoConfirmNeverPrompts ==
    autoConfirm
    => /\ UserPrompts = {}
       /\ \A k \in ChangeIdx :
             (k < i /\ ~IsNoOp(changes[k])) => k \in Range(changesToApply)

C21_Witness ==
    /\ autoConfirm
    /\ pc = "Done"
    /\ WorkingBranchCreated
    /\ Len(changes) = 2
    /\ Len(changesToApply) = 1

(***************************************************************************)
(* C23: when git branch says the name already exists, createBranch checks  *)
(* the branch out and, that checkout succeeding, the workflow goes on to   *)
(* the scan; when git branch fails otherwise, or the checkout fails, the   *)
(* run is Failed and that call is its last: no scan, generate or apply     *)
(* call follows.                                                           *)
(***************************************************************************)
C23_CreateBranchExisting ==
    \A n \in LogIdx :
        callLog[n].op = "branch"
        => /\ callLog[n].res = "exists"
                => /\ n + 1 \in LogIdx
                   /\ callLog[n + 1].op = "checkout"
                   /\ callLog[n + 1].arg = callLog[n].arg
                   /\ (callLog[n + 1].res = "ok" /\ Len(callLog) = n + 1)
                         => (pc = "scanProject" /\ head = callLog[n].arg)
           /\ callLog[n].res = "fail"
                => (pc = "Failed" /\ Len(callLog) = n)
           /\ (n + 1 \in LogIdx /\ callLog[n + 1].res = "fail")
                => (pc = "Failed" /\ Len(callLog) = n + 1)

C23_Witness ==
    /\ pc = "Done"
    /\ MutationCalls # {}
    /\ \E n \in LogIdx :
          /\ callLog[n].op = "branch" /\ callLog[n].res = "exists"
          /\ callLog[n + 1].op = "checkout" /\ callLog[n + 1].res = "ok"

(***************************************************************************)
(* C24: originalFileContents is filled once, from the result of the only   *)
(* scan call, before the generate call is issued, and has that value ever  *)
(* after; before the scan it is empty.                                     *)
(***************************************************************************)
C24_SnapshotTakenOnce ==
    /\ Cardinality(ScanCalls) <= 1
    /\ \A g \in GenerateCalls :
          \E n \in ScanCalls : n < g /\ callLog[n].res = "ok"
    /\ IF \E n \in ScanCalls :
             callLog[n].arg = "allScanPaths" /\ callLog[n].res = "ok"
       THEN \E scannedFiles \in ScanResults :
              \A p \in Paths :
                originalFileContents[p] = ScannedContent(scannedFiles, p)
       ELSE \A p \in Paths : originalFileContents[p] = Undefined

C24_Witness ==
    /\ pc = "Done"
    /\ MutationCalls # {}
    /\ \E k \in ChangeIdx : IsNoOp(changes[k])
    /\ originalFileContents["/proj/a.ts"] = "x"

(***************************************************************************)
(* C26: a step never takes the run back to an earlier phase of Init,       *)
(* PreflightBranch, Scanning, RemoteGenerate, Reviewing, Applying,         *)
(* PostflightStage, Done; Aborted is entered only from Reviewing; Failed   *)
(* is entered only from a phase that is not terminal; and nothing leaves   *)
(* a terminal phase.                                                       *)
(***************************************************************************)
C26_PhasesInOrder ==
    [][/\ pc \in Terminal => pc' = pc
       /\ pc' = "Aborted" => Phase(pc) = "Reviewing"
       /\ pc' \notin {"Aborted", "Failed"}
             => PhaseRank(Phase(pc')) >= PhaseRank(Phase(pc))]_vars

C26_Witness ==
    /\ pc = "Done"
    /\ WorkingBranchCreated
    /\ ConfirmPrompts # {}
    /\ SucceededApplies # {}
    /\ \E n \in StageCalls : callLog[n].res = "ok"

(***************************************************************************)
(* The files behind the backend: what a scan of a path returns after the   *)
(* calls of the log. createFile and writeFile store the content they were  *)
(* sent, deleteFile removes the file, a failed call changes nothing.       *)
(***************************************************************************)
RECURSIVE BackendFiles(_, _)
BackendFiles(files, log) ==
    IF log = <<>> THEN files
    ELSE LET c == Head(log)
             after ==
                 IF c.op \in {"createFile", "writeFile"} /\ c.res = "ok"
                 THEN [files EXCEPT ![c.arg] = c.content]
                 ELSE IF c.op = "deleteFile" /\ c.res = "ok"
                 THEN [files EXCEPT ![c.arg] = Undefined]
                 ELSE files
         IN  BackendFiles(after, Tail(log))

\* the content a fresh scan reports for the path
FreshScan(p) == BackendFiles(originalFileContents, callLog)[p]

\* call n is the last successful mutation of its path
LastOnPath(n) ==
    \A m \in SucceededApplies : callLog[m].arg = callLog[n].arg => m <= n

MaxSeedLen == 3

MaxPromptLen == 66

BranchNameLimit == 50

PromptAlphabet == {"a", "B", "7", " ", "-"}

RECURSIVE Repeat(_, _)
Repeat(s, n) == IF n = 0 THEN <<>> ELSE s \o Repeat(s, n - 1)

\* the prompts tried: a short seed, as it is and repeated up to MaxPromptLen
Prompts ==
    LET Seeds == UNION {[1..len -> PromptAlphabet] : len \in 1..MaxSeedLen}
    IN  Seeds \cup {Repeat(seed, MaxPromptLen \div Len(seed)) : seed \in Seeds}

ToLowerCaseChar(c) == IF c = "B" THEN "b" ELSE c

\* String.prototype.toLowerCase
ToLowerCase(s) == [n \in 1..Len(s) |-> ToLowerCaseChar(s[n])]

\* the characters the class [^a-z0-9] does not match
LowerAlnum ==
    {"a", "b", "c", "d", "e", "f", "g", "h", "i", "j", "k", "l", "m", "n", "o",
     "p", "q", "r", "s", "t", "u", "v", "w", "x", "y", "z",
     "0", "1", "2", "3", "4", "5", "6", "7", "8", "9"}

\* the rest of s after the longest match of [^a-z0-9]+ at its start
RECURSIVE SkipMatch(_)
SkipMatch(s) ==
    IF s = <<>> \/ Head(s) \in LowerAlnum THEN s ELSE SkipMatch(Tail(s))

\* A pattern without the +: every character is replaced on its own.
ReplaceNonAlnumMutant(s) ==
    [n \in 1..Len(s) |-> IF s[n] \in LowerAlnum THEN s[n] ELSE "-"]

\* s.replace(/[^a-z0-9]+/g, '-')
RECURSIVE ReplaceNonAlnum(_)
ReplaceNonAlnum(s) ==
    IF s = <<>> THEN <<>>
    ELSE IF Head(s) \in LowerAlnum THEN <<Head(s)>> \o ReplaceNonAlnum(Tail(s))
    ELSE <<"-">> \o ReplaceNonAlnum(SkipMatch(s))

\* s.substring(0, end)
Substring0(s, end) == SubSeq(s, 1, IF end < Len(s) THEN end ELSE Len(s))

BranchPrefix == <<"f", "e", "a", "t", "u", "r", "e", "/">>

defaultBranchSuggestion(userPrompt) ==
    Substring0(BranchPrefix \o ReplaceNonAlnum(ToLowerCase(userPrompt)),
               BranchNameLimit)

\* the handlers at rest while the derivation is looked at on its own
WorkflowIdle ==
    /\ pc = "Done"
    /\ options = [yes |-> FALSE, noGit |-> FALSE, branch |-> Undefined]
    /\ autoConfirm = FALSE
    /\ skipGit = FALSE
    /\ customBranchName = Undefined
    /\ isGitRepo = FALSE
    /\ originalBranch = Undefined
    /\ originalFileContents = [p \in Paths |-> Undefined]
    /\ changes = <<>>
    /\ i = 1
    /\ changesToApply = <<>>
    /\ filesModifiedOrAdded = <<>>
    /\ j = 1
    /\ repo = FALSE
    /\ head = Undefined
    /\ callLog = <<>>

\* no login, logout or whoami command has run
AuthIdle ==
    /\ authPc = "idle"
    /\ commands = 0
    /\ configFile = [exists |-> FALSE, text |-> <<>>]
    /\ server = "none"
    /\ closeCallbacks = <<>>
    /\ timeout = FALSE
    /\ authPromise = [state |-> "none", token |-> [k \in {} |-> ""], error |-> ""]
    /\ requests = 0
    /\ loginArgs = [provider |-> "", port |-> <<>>]
    /\ lastRequest = [path |-> "", status |-> 0]
    /\ authLog = <<>>

InitBranchName ==
    /\ WorkflowIdle
    /\ AuthIdle
    /\ UtilIdle
    /\ prompt \in Prompts
    /\ branchName = Undefined

DeriveBranchName ==
    /\ branchName = Undefined
    /\ branchName' = defaultBranchSuggestion(prompt)
    /\ UNCHANGED <<workflowVars, prompt, authVars, utilVars>>

NextBranchName == DeriveBranchName

SpecBranchName == InitBranchName /\ [][NextBranchName]_vars

\* position n of the lower-cased prompt: itself when it is a-z or 0-9, one
\* '-' when a run of other characters starts there, nothing inside a run
MarkRuns(s) ==
    [n \in 1..Len(s) |->
        IF s[n] \in LowerAlnum THEN s[n]
        ELSE IF n = 1 \/ s[n - 1] \in LowerAlnum THEN "-"
        ELSE ""]

\* the lower-case form of a letter or digit of the prompt
LowerOf(c) ==
    CASE c = "A" -> "a" [] c = "B" -> "b" [] c = "C" -> "c" [] OTHER -> c

\* the name the description gives: lower-case, collapse, prefix, cut
DescribedName(userPrompt) ==
    LET lower == [n \in 1..Len(userPrompt) |-> LowerOf(userPrompt[n])]
        collapsed == SelectSeq(MarkRuns(lower), LAMBDA c : c # "")
        whole == BranchPrefix \o collapsed
    IN  [n \in 1..(IF Len(whole) > 50 THEN 50 ELSE Len(whole)) |-> whole[n]]

(***************************************************************************)
(* C22: the derived branch name is the prompt lower-cased, every maximal   *)
(* run of characters outside a-z and 0-9 replaced by one '-', prefixed     *)
(* with 'feature/' and cut so that the whole name has at most 50           *)
(* characters; no two '-' of a replaced run are adjacent.                  *)
(***************************************************************************)
C22_BranchNameFromPrompt ==
    branchName # Undefined
    => /\ branchName = DescribedName(prompt)
       /\ Len(branchName) <= 50
       /\ \A n \in 9..Len(branchName) : branchName[n] \in LowerAlnum \cup {"-"}
       /\ \A n \in 9..(Len(branchName) - 1) :
             ~(branchName[n] = "-" /\ branchName[n + 1] = "-")

\* a prompt with upper case and runs, long enough to be cut
C22_Witness ==
    /\ branchName # Undefined
    /\ Len(prompt) > 50
    /\ Len(branchName) = 50
    /\ \E n \in 1..(Len(prompt) - 1) :
          prompt[n] = " " /\ prompt[n + 1] = "-"
    /\ \E n \in 1..Len(prompt) : prompt[n] = "B"

(***************************************************************************)
(* The login, logout and whoami commands (part_006, lines 531-613) with    *)
(* the callback server and the token store of src/src/auth/authManager.ts. *)
(* A session is a sequence of commands, each a process of its own; the     *)
(* config file outlives them.                                              *)
(***************************************************************************)
MaxCommands == 2

MaxRequests == 2

EmptyObject == [k \in {} |-> ""]

\* the properties of an AuthToken the model follows, in declaration order
TokenKeys == <<"accessToken", "userId", "userEmail", "userName", "provider">>

RequiredKeys == {"accessToken", "userId", "userEmail", "provider"}

\* o[k] of a JavaScript object: undefined when the property is not there
Field(o, k) == IF k \in DOMAIN o THEN o[k] ELSE Undefined

\* A serialisation that leaves the optional userName out.
JsonStringifyMutant(token) ==
    LET ks == SelectSeq(TokenKeys,
                        LAMBDA k : k \in RequiredKeys /\ Field(token, k) # Undefined)
    IN  [n \in 1..Len(ks) |-> <<ks[n], token[ks[n]]>>]

\* JSON.stringify(token, null, 2): the properties whose value is not
\* undefined, as key/value pairs in order
JsonStringify(token) ==
    LET ks == SelectSeq(TokenKeys, LAMBDA k : Field(token, k) # Undefined)
    IN  [n \in 1..Len(ks) |-> <<ks[n], token[ks[n]]>>]

\* JSON.parse(content): an object with the properties the text holds
JsonParse(text) ==
    [k \in {text[n][1] : n \in 1..Len(text)} |->
        (CHOOSE pair \in Range(text) : pair[1] = k)[2]]

\* the query of a callback that carries every required parameter
FullQuery ==
    [accessToken |-> "tok", userId |-> "u1", userEmail |-> "a@b.c",
     provider |-> "google", userName |-> Undefined]

\* query strings tried: searchParams.get gives Undefined (null) for a
\* parameter that is not there and "" for one that is empty
CallbackQueries ==
    {FullQuery,
     [FullQuery EXCEPT !.userName = "Ann"],
     [FullQuery EXCEPT !.userName = "A%20B"],
     [FullQuery EXCEPT !.userName = "50%"],
     [FullQuery EXCEPT !.accessToken = "tok2"],
     [FullQuery EXCEPT !.accessToken = Undefined],
     [FullQuery EXCEPT !.provider = ""]}

Requests ==
    {[path |-> "/auth/callback", query |-> q] : q \in CallbackQueries}
    \cup {[path |-> "/favicon.ico", query |-> FullQuery],
          [path |-> "//", query |-> FullQuery]}

\* decodeURIComponent throws URIError on a % that starts no escape
DecodeThrows(v) == v = "50%"

\* decodeURIComponent of a value it accepts
DecodeURIComponent(v) == IF v = "A%20B" THEN "A B" ELSE v

\* if (accessToken && userId && userEmail && provider)
HasRequired(q) == \A k \in RequiredKeys : Truthy(q[k])

\* the AuthToken the handler builds (lines 40-49)
BuildToken(q) ==
    [accessToken |-> q.accessToken, userId |-> q.userId,
     userEmail |-> q.userEmail,
     userName |-> IF Truthy(q.userName) THEN DecodeURIComponent(q.userName)
                  ELSE Undefined,
     provider |-> q.provider]

Resolved(token) == [state |-> "resolved", token |-> token, error |-> ""]

Rejected(message) == [state |-> "rejected", token |-> EmptyObject, error |-> message]

\* resolve and reject of a promise act on the first call only
Settle(p, outcome) == IF p.state = "pending" THEN outcome ELSE p

RECURSIVE SettleAll(_, _)
SettleAll(p, callbacks) ==
    IF callbacks = <<>> THEN p
    ELSE SettleAll(Settle(p, Head(callbacks)), Tail(callbacks))

Exited == {"exit0", "exit1", "crashed"}

\* a login process is running
LoginAlive ==
    authPc \in {"login.openAuthUrl", "login.awaitAuthPromise",
                "login.storeAuthToken"}

StoreCall(op, token, kind) == [op |-> op, token |-> token, kind |-> kind]

\* the arguments of a command that is not login
NoLoginArgs == [provider |-> "", port |-> <<>>]

\* no request handled yet
NoRequest == [path |-> "", status |-> 0]

\* the command lines tried: the default port, a number followed by
\* letters, an unknown provider, a privileged port, a port past the range,
\* no number
LoginInputs ==
    {[provider |-> "google", port |-> <<"8", "0", "8", "0">>],
     [provider |-> "github", port |-> <<"8", "0", "8", "0", "a", "b", "c">>],
     [provider |-> "gitlab", port |-> <<"8", "0", "8", "0">>],
     [provider |-> "google", port |-> <<"8", "0">>],
     [provider |-> "github", port |-> <<"7", "0", "0", "0", "0">>],
     [provider |-> "google", port |-> <<"a", "b", "c">>]}

Digits == <<"0", "1", "2", "3", "4", "5", "6", "7", "8", "9">>

IsDigit(c) == \E d \in 1..Len(Digits) : Digits[d] = c

DigitValue(c) == (CHOOSE d \in 1..Len(Digits) : Digits[d] = c) - 1

\* the longest prefix of s made of digits
RECURSIVE DigitPrefix(_)
DigitPrefix(s) ==
    IF s = <<>> \/ ~IsDigit(Head(s)) THEN <<>>
    ELSE <<Head(s)>> \o DigitPrefix(Tail(s))

\* the number a sequence of digits denotes in base 10
RECURSIVE DecimalValue(_)
DecimalValue(ds) ==
    IF ds = <<>> THEN 0
    ELSE 10 * DecimalValue(SubSeq(ds, 1, Len(ds) - 1)) + DigitValue(ds[Len(ds)])

\* s without its leading white space
RECURSIVE TrimStart(_)
TrimStart(s) ==
    IF s # <<>> /\ Head(s) = " " THEN TrimStart(Tail(s)) ELSE s

\* parseInt(str, 10): leading white space is skipped, a sign is read, then
\* the digits up to the first character that is not one; NaN without a digit
ParseInt(str) ==
    LET t == TrimStart(str)
        signed == t # <<>> /\ Head(t) \in {"-", "+"}
        ds == DigitPrefix(IF signed THEN Tail(t) ELSE t)
    IN  IF ds = <<>> THEN [nan |-> TRUE, value |-> 0]
        ELSE [nan |-> FALSE,
              value |-> IF signed /\ Head(t) = "-"
                        THEN 0 - DecimalValue(ds) ELSE DecimalValue(ds)]

MinPort == 1024

MaxPort == 65535

\* ['google', 'github'].includes(provider)
SupportedProviders == {"google", "github"}

\* isNaN(cliPort) || cliPort < 1024 || cliPort > 65535
InvalidPort(cliPort) ==
    cliPort.nan \/ cliPort.value < MinPort \/ cliPort.value > MaxPort

\* a command is started from the shell: a new process, no server, no timer
StartCommand(first, args) ==
    /\ commands' = commands + 1
    /\ authPc' = first
    /\ loginArgs' = args
    /\ server' = "none"
    /\ closeCallbacks' = <<>>
    /\ timeout' = FALSE
    /\ authPromise' = [state |-> "none", token |-> EmptyObject, error |-> ""]
    /\ requests' = 0
    /\ lastRequest' = NoRequest
    /\ UNCHANGED <<configFile, authLog, workflowVars, branchNameVars, utilVars>>

RunLogin ==
    /\ authPc \in {"idle"} \cup Exited
    /\ commands < MaxCommands
    /\ \E args \in LoginInputs : StartCommand("login.validate", args)

RunLogout ==
    /\ authPc \in {"idle"} \cup Exited
    /\ commands < MaxCommands
    /\ StartCommand("logout.clearAuthToken", NoLoginArgs)

RunWhoami ==
    /\ authPc \in {"idle"} \cup Exited
    /\ commands < MaxCommands
    /\ StartCommand("whoami.getAuthToken", NoLoginArgs)

\* the checks at the head of the login handler (lines 540-549): each one
\* ends the process with status 1
ValidateLogin ==
    /\ authPc = "login.validate"
    /\ authPc' = IF loginArgs.provider \notin SupportedProviders THEN "exit1"
                 ELSE IF InvalidPort(ParseInt(loginArgs.port)) THEN "exit1"
                 ELSE "login.startOAuthWebServer"
    /\ UNCHANGED <<commands, configFile, server, closeCallbacks, timeout,
                   authPromise, requests, authLog, loginArgs, lastRequest,
                   workflowVars, branchNameVars, utilVars>>

\* startOAuthWebServer(cliPort): the promise, the server, listen, the timer
StartOAuthWebServer ==
    /\ authPc = "login.startOAuthWebServer"
    /\ authPromise' = [state |-> "pending", token |-> EmptyObject, error |-> ""]
    /\ server' = "starting"
    /\ timeout' = TRUE
    /\ authPc' = "login.openAuthUrl"
    /\ UNCHANGED <<commands, configFile, closeCallbacks, requests, authLog,
                   loginArgs, lastRequest,
                   workflowVars, branchNameVars, utilVars>>

\* server.listen succeeds, or the server emits 'error' (lines 64-74).  A
\* rejection that comes before the command awaits the promise has no
\* handler: the runtime lets it pass or ends the process, by its version.
ServerListen ==
    /\ LoginAlive
    /\ server = "starting"
    /\ \/ /\ server' = "listening"
          /\ UNCHANGED <<authPromise, authPc>>
       \/ \E code \in {"EADDRINUSE", "EACCES"} :
          /\ server' = "failed"
          /\ authPromise' = Settle(authPromise, Rejected(code))
          /\ authPc' \in IF authPc = "login.openAuthUrl"
                          THEN {authPc, "crashed"} ELSE {authPc}
    /\ UNCHANGED <<commands, configFile, closeCallbacks, timeout, requests,
                   authLog, loginArgs, lastRequest,
                   workflowVars, branchNameVars, utilVars>>

\* await openAuthUrl(authUrl, cliPort)
OpenAuthUrl ==
    /\ authPc = "login.openAuthUrl"
    /\ \E opened \in BOOLEAN :
          authPc' = IF opened THEN "login.awaitAuthPromise" ELSE "exit1"
    /\ UNCHANGED <<commands, configFile, server, closeCallbacks, timeout,
                   authPromise, requests, authLog, loginArgs, lastRequest,
                   workflowVars, branchNameVars, utilVars>>

\* server.close(callback) of a server that is listening or closing
ServerClose(callback) ==
    /\ closeCallbacks' = Append(closeCallbacks, callback)
    /\ server' = "closing"

\* new URL(req.url, base) throws on a request target that opens an
\* authority with no host
UrlThrows(req) == req.path = "//"

\* the status written by res.writeHead, 0 when the listener threw before
Respond(path, status) == lastRequest' = [path |-> path, status |-> status]

\* the request listener (lines 23-62)
HandleRequest ==
    /\ LoginAlive
    /\ server \in {"listening", "closing"}
    /\ requests < MaxRequests
    /\ requests' = requests + 1
    /\ \E req \in Requests :
        IF UrlThrows(req)
        THEN /\ authPc' = "crashed"
             /\ Respond(req.path, 0)
             /\ UNCHANGED <<server, closeCallbacks>>
        ELSE IF req.path # "/auth/callback"
        THEN /\ Respond(req.path, 404)
             /\ UNCHANGED <<authPc, server, closeCallbacks>>
        ELSE IF ~HasRequired(req.query)
        THEN /\ ServerClose(Rejected("Missing authentication parameters in callback."))
             /\ Respond(req.path, 400)
             /\ UNCHANGED authPc
        ELSE IF Truthy(req.query.userName) /\ DecodeThrows(req.query.userName)
        THEN /\ authPc' = "crashed"
             /\ Respond(req.path, 0)
             /\ UNCHANGED <<server, closeCallbacks>>
        ELSE /\ ServerClose(Resolved(BuildToken(req.query)))
             /\ Respond(req.path, 200)
             /\ UNCHANGED authPc
    /\ UNCHANGED <<commands, configFile, timeout, authPromise, authLog,
                   loginArgs, workflowVars, branchNameVars, utilVars>>

\* the server's 'close' event: the callbacks of server.close run in order
\* and the listener of line 83 clears the timer
ServerClosed ==
    /\ LoginAlive
    /\ server = "closing"
    /\ server' = "closed"
    /\ authPromise' = SettleAll(authPromise, closeCallbacks)
    /\ closeCallbacks' = <<>>
    /\ timeout' = FALSE
    /\ UNCHANGED <<authPc, commands, configFile, requests, authLog,
                   loginArgs, lastRequest,
                   workflowVars, branchNameVars, utilVars>>

\* the 5 minute timer fires (lines 77-81)
Timeout ==
    /\ LoginAlive
    /\ timeout
    /\ timeout' = FALSE
    /\ server \in {"listening", "closing", "failed"}
    /\ IF server = "failed"
       THEN /\ authPromise' =
                   Settle(authPromise, Rejected("Authentication callback timed out."))
            /\ UNCHANGED <<server, closeCallbacks>>
       ELSE /\ ServerClose(Rejected("Authentication callback timed out."))
            /\ UNCHANGED authPromise
    /\ UNCHANGED <<authPc, commands, configFile, requests, authLog,
                   loginArgs, lastRequest,
                   workflowVars, branchNameVars, utilVars>>

\* A login that stores whatever the promise settled with.
AfterAwaitMutant(promise) == "login.storeAuthToken"

\* the await of line 561: the value goes on to storeAuthToken, a rejection
\* is thrown into the catch of line 566
AfterAwait(promise) ==
    IF promise.state = "resolved" THEN "login.storeAuthToken" ELSE "exit1"

\* const authToken = await authPromise
AwaitAuthPromise ==
    /\ authPc = "login.awaitAuthPromise"
    /\ authPromise.state \in {"resolved", "rejected"}
    /\ authPc' = AfterAwait(authPromise)
    /\ UNCHANGED <<commands, configFile, server, closeCallbacks, timeout,
                   authPromise, requests, authLog, loginArgs, lastRequest,
                   workflowVars, branchNameVars, utilVars>>

\* await storeAuthToken(authToken)
StoreAuthToken ==
    /\ authPc = "login.storeAuthToken"
    /\ \E written \in BOOLEAN :
        IF written
        THEN /\ configFile' = [exists |-> TRUE,
                               text |-> JsonStringify(authPromise.token)]
             /\ authLog' = Append(authLog,
                    StoreCall("storeAuthToken", authPromise.token, "ok"))
             /\ authPc' = "exit0"
        ELSE /\ authLog' = Append(authLog,
                    StoreCall("storeAuthToken", authPromise.token, "throws"))
             /\ authPc' = "exit1"
             /\ UNCHANGED configFile
    /\ UNCHANGED <<commands, server, closeCallbacks, timeout, authPromise,
                   requests, loginArgs, lastRequest,
                   workflowVars, branchNameVars, utilVars>>

\* A clearAuthToken that rethrows ENOENT like any other error.
ClearOutcomesMutant(file) == IF file.exists THEN {"ok", "throws"} ELSE {"throws"}

\* clearAuthToken: unlink removes the file or fails; ENOENT is swallowed
ClearOutcomes(file) == IF file.exists THEN {"ok", "throws"} ELSE {"ok"}

\* the logout command
ClearAuthToken ==
    /\ authPc = "logout.clearAuthToken"
    /\ \E kind \in ClearOutcomes(configFile) :
        /\ authLog' = Append(authLog, StoreCall("clearAuthToken", EmptyObject, kind))
        /\ authPc' = IF kind = "ok" THEN "exit0" ELSE "exit1"
        /\ configFile' = IF kind = "ok" THEN [exists |-> FALSE, text |-> <<>>]
                         ELSE configFile
    /\ UNCHANGED <<commands, server, closeCallbacks, timeout, authPromise,
                   requests, loginArgs, lastRequest,
                   workflowVars, branchNameVars, utilVars>>

\* getAuthToken: null on ENOENT, the parsed content, or a read error
GetAuthTokenResults(file) ==
    IF ~file.exists THEN {StoreCall("getAuthToken", EmptyObject, "null")}
    ELSE {StoreCall("getAuthToken", JsonParse(file.text), "token"),
          StoreCall("getAuthToken", EmptyObject, "throws")}

\* the whoami command
GetAuthToken ==
    /\ authPc = "whoami.getAuthToken"
    /\ \E result \in GetAuthTokenResults(configFile) :
        /\ authLog' = Append(authLog, result)
        /\ authPc' = IF result.kind = "throws" THEN "exit1" ELSE "exit0"
    /\ UNCHANGED <<commands, configFile, server, closeCallbacks, timeout,
                   authPromise, requests, loginArgs, lastRequest,
                   workflowVars, branchNameVars, utilVars>>

\* the session starts logged out, or with the token of an earlier login
InitAuth ==
    /\ WorkflowIdle
    /\ UtilIdle
    /\ authPc = "idle"
    /\ commands = 0
    /\ configFile \in {[exists |-> FALSE, text |-> <<>>],
                       [exists |-> TRUE,
                        text |-> JsonStringify(BuildToken(FullQuery))]}
    /\ server = "none"
    /\ closeCallbacks = <<>>
    /\ timeout = FALSE
    /\ authPromise = [state |-> "none", token |-> EmptyObject, error |-> ""]
    /\ requests = 0
    /\ loginArgs = [provider |-> "", port |-> <<>>]
    /\ lastRequest = [path |-> "", status |-> 0]
    /\ authLog = <<>>
    /\ prompt = <<>>
    /\ branchName = Undefined

NextAuth ==
    \/ RunLogin
    \/ RunLogout
    \/ RunWhoami
    \/ ValidateLogin
    \/ StartOAuthWebServer
    \/ ServerListen
    \/ OpenAuthUrl
    \/ HandleRequest
    \/ ServerClosed
    \/ Timeout
    \/ AwaitAuthPromise
    \/ StoreAuthToken
    \/ ClearAuthToken
    \/ GetAuthToken

SpecAuth == InitAuth /\ [][NextAuth]_vars

(***************************************************************************)
(* Vocabulary of the token store.                                          *)
(***************************************************************************)
AuthLogIdx == 1..Len(authLog)

\* two tokens are equal when every property reads the same
SameToken(a, b) ==
    \A n \in 1..Len(TokenKeys) : Field(a, TokenKeys[n]) = Field(b, TokenKeys[n])

\* call m changed the config file
Wrote(m) ==
    /\ authLog[m].op \in {"storeAuthToken", "clearAuthToken"}
    /\ authLog[m].kind = "ok"

\* call m is the last one before call n that changed the config file
LastWriteBefore(m, n) ==
    /\ m < n
    /\ Wrote(m)
    /\ \A k \in (m + 1)..(n - 1) : ~Wrote(k)

(***************************************************************************)
(* C29: an invocation of startOAuthWebServer yields exactly one outcome:   *)
(* the login process never ends by itself with the promise still pending,  *)
(* and the promise is resolved only with a token that has accessToken,     *)
(* userId, userEmail and provider.                                         *)
(***************************************************************************)
C29_OneOutcomePerInvocation ==
    /\ authPc = "crashed" => authPromise.state \in {"resolved", "rejected"}
    /\ authPromise.state = "resolved"
          => \A k \in RequiredKeys : Truthy(Field(authPromise.token, k))

(***************************************************************************)
(* C30: the token store round-trips: a getAuthToken that follows a         *)
(* storeAuthToken(t) returns a token equal to t; one that follows a        *)
(* clearAuthToken returns null; and clearAuthToken fails only when the     *)
(* file is there, never when no token is stored.                           *)
(***************************************************************************)
C30_TokenStoreRoundTrip ==
    /\ \A n \in AuthLogIdx : \A m \in AuthLogIdx :
          (/\ authLog[n].op = "getAuthToken"
           /\ authLog[n].kind # "throws"
           /\ LastWriteBefore(m, n))
          => IF authLog[m].op = "storeAuthToken"
             THEN /\ authLog[n].kind = "token"
                  /\ SameToken(authLog[n].token, authLog[m].token)
             ELSE authLog[n].kind = "null"
    /\ \A n \in AuthLogIdx :
          (/\ authLog[n].op = "clearAuthToken"
           /\ authLog[n].kind = "throws"
           /\ \A k \in (n + 1)..Len(authLog) : ~Wrote(k))
          => configFile.exists
    /\ \A n \in AuthLogIdx : \A m \in AuthLogIdx :
          (/\ authLog[n].op = "clearAuthToken"
           /\ LastWriteBefore(m, n)
           /\ authLog[m].op = "clearAuthToken")
          => authLog[n].kind = "ok"

\* a login that stored a token with a user name, then whoami read it back
C30_Witness ==
    /\ Len(authLog) = 2
    /\ authLog[1].op = "storeAuthToken" /\ authLog[1].kind = "ok"
    /\ Field(authLog[1].token, "userName") = "A B"
    /\ authLog[2].op = "getAuthToken" /\ authLog[2].kind = "token"

(***************************************************************************)
(* C32: isGitRepository returns the answer of the underlying check: after  *)
(* the check ran, isGitRepo is true exactly when checkIsRepo answered      *)
(* true, and false when it answered false or failed.                       *)
(***************************************************************************)
C32_IsGitRepositoryMirrorsCheck ==
    \A n \in LogIdx :
        callLog[n].op = "checkIsRepo" => (isGitRepo = (callLog[n].res = "true"))

\* the review loop went through a batch that is not empty, nothing was
\* enqueued and nobody answered abort
NoneConfirmed ==
    /\ Len(changes) > 0
    /\ i > Len(changes)
    /\ changesToApply = <<>>
    /\ AbortAt = 0

\* the last call of the run is a checkout that follows the review loop
RevertIsLastCall ==
    /\ Len(callLog) > 1
    /\ callLog[Len(callLog)].op = "checkout"
    /\ callLog[Len(callLog) - 1].op \notin {"branch", "checkout"}

UnknownActionApplied ==
    {n \in 1..Len(changesToApply) :
        /\ n < j
        /\ changes[changesToApply[n]].action \notin {"add", "modify", "delete"}}

(***************************************************************************)
(* C39: applyFileChange for a change whose action is none of add, modify,  *)
(* delete issues no backend call and raises no error: the log holds no     *)
(* createFile, writeFile or deleteFile for that change and no error report *)
(* of the apply loop's catch for it.                                       *)
(***************************************************************************)
C39_UnknownActionSkipped ==
    \A n \in UnknownActionApplied :
        \A m \in LogIdx :
            callLog[m].idx = changesToApply[n]
               => callLog[m].op \notin (MutationOps \cup {"console.error"})

\* a rename was enqueued and passed over, the change after it was applied
C39_Witness ==
    /\ pc = "Done"
    /\ Len(changesToApply) = 2
    /\ UnknownActionApplied = {1}
    /\ CallsFor(changesToApply[2]) # {}
    /\ callLog[Len(callLog)] = SuccessBanner

\* the text is an integer in decimal notation: digits, nothing else
IsIntegerText(str) ==
    /\ str # <<>>
    /\ \A k \in 1..Len(str) : IsDigit(str[k])

\* the command line names a supported provider and a port that is an
\* integer between 1024 and 65535
ValidLoginInput(args) ==
    /\ args.provider \in {"google", "github"}
    /\ IsIntegerText(args.port)
    /\ DecimalValue(args.port) >= MinPort
    /\ DecimalValue(args.port) <= MaxPort

(***************************************************************************)
(* C31: a login whose provider is not google or github, or whose port is   *)
(* not an integer between 1024 and 65535, is rejected before anything is   *)
(* done: the command is still at its checks or has exited with status 1,   *)
(* and no callback server and no promise have been created.                *)
(***************************************************************************)
C31_InvalidLoginRejected ==
    (loginArgs # NoLoginArgs /\ ~ValidLoginInput(loginArgs))
    => /\ authPc \in {"login.validate", "exit1"}
       /\ server = "none"
       /\ authPromise.state = "none"

(***************************************************************************)
(* C38: a request on a path other than /auth/callback is answered 404 and  *)
(* has no effect: handling it leaves the promise, the server, the pending  *)
(* close callbacks, the timer and the command where they were, so that a   *)
(* later valid callback still resolves the promise.                        *)
(***************************************************************************)
C38_OtherPathsHaveNoEffect ==
    [][(requests' = requests + 1 /\ lastRequest'.path # "/auth/callback")
          => /\ lastRequest'.status = 404
             /\ UNCHANGED <<authPc, server, closeCallbacks, timeout, authPromise>>]_vars

(***************************************************************************)
(* C37: a failed login leaves the stored credential as it was:             *)
(* storeAuthToken is reached only with a promise that resolved with a      *)
(* token, and no other step of a login (server start, listen error,        *)
(* browser launch, request, timer, rejection) changes the config file.     *)
(***************************************************************************)
C37_FailedLoginKeepsToken ==
    [][/\ authPc' = "login.storeAuthToken" => authPromise'.state = "resolved"
       /\ configFile' # configFile
             => \/ authPc = "login.storeAuthToken" /\ authPromise.state = "resolved"
                \/ authPc = "logout.clearAuthToken"]_vars

\* a login ended by the timer, the token of the earlier login still stored
C37_Witness ==
    /\ authPc = "exit1"
    /\ loginArgs.provider = "google"
    /\ authPromise.state = "rejected"
    /\ authPromise.error = "Authentication callback timed out."
    /\ authLog = <<>>
    /\ configFile = [exists |-> TRUE, text |-> JsonStringify(BuildToken(FullQuery))]

(***************************************************************************)
(* generateUnifiedDiff as a function of its two arguments.                 *)
(***************************************************************************)

\* file contents tried: empty, one line, two lines, with and without the
\* final newline
Contents ==
    {"", "x", "y", "z", "x\n", "\n", "x\ny", "y\nx", "x\nx", "x\ny\n"}

InitDiff ==
    /\ WorkflowIdle
    /\ AuthIdle
    /\ prompt = <<>>
    /\ branchName = Undefined
    /\ repairs = <<>>
    /\ \E a \in Contents : \E b \in Contents :
          diffCall = [original |-> a, new |-> b, returned |-> FALSE,
                      diffString |-> <<>>]

\* return diffString
GenerateUnifiedDiff ==
    /\ ~diffCall.returned
    /\ diffCall' = [diffCall EXCEPT
                      !.returned = TRUE,
                      !.diffString = generateUnifiedDiff(diffCall.original,
                                                         diffCall.new)]
    /\ UNCHANGED <<workflowVars, branchNameVars, authVars, repairs>>

NextDiff == GenerateUnifiedDiff

SpecDiff == InitDiff /\ [][NextDiff]_vars

MaxJsonLen == 4

MaxRepairs == 2

\* the backslash, a character that follows it in a JSON escape, and one
\* that does not
JsonAlphabet == {"\\", "n", "a"}

JsonStrings == UNION {[1..n -> JsonAlphabet] : n \in 0..MaxJsonLen}

\* the characters of the negative lookahead (?!["\\/bfnrtu])
EscapeChars == {"\"", "\\", "/", "b", "f", "n", "r", "t", "u"}

\* replace(/\\(?!["\\/bfnrtu])/g, '\\\\'): every backslash whose next
\* character is not one of the class, or that ends the text, becomes two;
\* a match is one character long, so each backslash is tested by itself
RECURSIVE ReplaceBadEscapes(_)
ReplaceBadEscapes(s) ==
    IF s = <<>> THEN <<>>
    ELSE IF Head(s) = "\\" /\ (Len(s) = 1 \/ s[2] \notin EscapeChars)
    THEN <<"\\", "\\">> \o ReplaceBadEscapes(Tail(s))
    ELSE <<Head(s)>> \o ReplaceBadEscapes(Tail(s))

repairJsonBadEscapes(jsonString) == ReplaceBadEscapes(jsonString)

InitJsonRepair ==
    /\ WorkflowIdle
    /\ AuthIdle
    /\ prompt = <<>>
    /\ branchName = Undefined
    /\ diffCall = [original |-> "", new |-> "", returned |-> FALSE, diffString |-> <<>>]
    /\ \E jsonString \in JsonStrings : repairs = <<jsonString>>

\* the function is applied to the text, then to its own result
RepairJsonBadEscapes ==
    /\ Len(repairs) >= 1
    /\ Len(repairs) <= MaxRepairs
    /\ repairs' = Append(repairs, repairJsonBadEscapes(repairs[Len(repairs)]))
    /\ UNCHANGED <<workflowVars, branchNameVars, authVars, diffCall>>

NextJsonRepair == RepairJsonBadEscapes

SpecJsonRepair == InitJsonRepair /\ [][NextJsonRepair]_vars

\* the characters that make a two-character JSON escape with a backslash
SimpleEscapes == {"\"", "\\", "/", "b", "f", "n", "r", "t"}

\* read from the left, every backslash of s starts a valid escape sequence
RECURSIVE AllEscapesValid(_)
AllEscapesValid(s) ==
    IF s = <<>> THEN TRUE
    ELSE IF Head(s) = "\\"
    THEN Len(s) >= 2 /\ s[2] \in SimpleEscapes /\ AllEscapesValid(Tail(Tail(s)))
    ELSE AllEscapesValid(Tail(s))

(***************************************************************************)
(* C33: repairJsonBadEscapes changes only backslashes that are not part of *)
(* a valid escape: a text in which every backslash belongs to a valid      *)
(* escape sequence, an escaped backslash followed by an ordinary character *)
(* included, is returned as it is.                                         *)
(***************************************************************************)
C33_ValidEscapesUntouched ==
    (Len(repairs) >= 2 /\ AllEscapesValid(repairs[1]))
    => repairs[2] = repairs[1]

(***************************************************************************)
(* C40: repairJsonBadEscapes is idempotent: repairing a repaired text      *)
(* gives the repaired text.                                                *)
(***************************************************************************)
C40_RepairIdempotent ==
    Len(repairs) >= 3 => repairs[3] = repairs[2]

(***************************************************************************)
(* The handlers under the assumption that every collaborator call and      *)
(* every prompt returns: a step that can be taken is taken.                *)
(***************************************************************************)
SpecLive == Spec /\ WF_vars(Next)

(***************************************************************************)
(* C36: when every call and prompt returns, an invocation reaches a        *)
(* terminal state (Done, Aborted or Failed) and stays in the one it        *)
(* reached, and each change is reviewed at most once: the review index     *)
(* never goes back and every pass through the loop body moves it on by     *)
(* one.                                                                    *)
(***************************************************************************)
C36_InvocationTerminates ==
    /\ <>(pc \in Terminal)
    /\ [][/\ pc \in Terminal => pc' = pc
          /\ i' \in {i, i + 1}
          /\ (pc \in {"review", "promptConfirm"} /\ pc' = "review")
                => i' = i + 1]_vars

\* a full batch was reviewed change by change and the run ended
C36_Witness ==
    /\ pc = "Done"
    /\ Len(changes) = MaxChanges
    /\ i = MaxChanges + 1
    /\ \A k \in ChangeIdx : Cardinality({n \in ConfirmPrompts : callLog[n].idx = k}) = 1
=============================================================================
